---- MODULE Spec2Model ----
(***************************************************************************)
(* A model of the terminal UI plugin of aparte (src/src/plugins/ui.rs):    *)
(* the windows, the unread set, the conversations map and the view tree     *)
(* (TitleBar, FrameLayout, WinBar, Input) that UIPlugin::on_event drives.   *)
(*                                                                         *)
(* Strings are kept as they are where the code only compares them (window  *)
(* names, jids) and are sequences of pieces where the code builds or       *)
(* inspects them (the input line, command arguments, log bodies).          *)
(* Option<T> is a sequence of length 0 (None) or 1 (Some).                 *)
(***************************************************************************)
EXTENDS Integers, Sequences, FiniteSets, TLC

-----------------------------------------------------------------------------
(* Bounds of the model *)

\* items kept by all the BufferedWins together
MaxBacklog == 3
\* characters of the input line
MaxBuf == 2
\* lines a BufferedWin shows
WinHeight == 2
\* characters of a command line handed to the core
MaxLine == 4
\* bytes read from the terminal
MaxBytes == 3
\* iqs sent by the BookmarksPlugin in a session
MaxIq == 3
\* the widest row the WinBar is drawn on
MaxWidth == 30
\* online events and inbound stanzas of the stream of main_loop
MaxOnline == 2
MaxStanzas == 4

-----------------------------------------------------------------------------
(* Values *)

None == <<>>
Some(x) == <<x>>
IsSome(o) == o # <<>>
Unwrap(o) == o[1]

\* The name of the window UIPlugin::init creates.
Console == "console"

\* Bare jids, of the form local@domain (spec, section 3).  A jid is therefore
\* never the string "console".
Jids == {"alice@x", "room@conf.x"}

\* The account the client logs in as, and the nick it joins rooms with.
Me == "me@x"
Nick == "nick"

\* Characters typed on the input line.
Chars == {"/", "w"}
\* Characters of a command line: "/", the name b and the separator.
CommandChars == {"/", "b", " "}

\* Names given to /win: every window name and one that is never a window.
WinNames == Jids \cup {Console, "nowhere"}

\* The command captured by Event::ReadPassword (/connect me@x).
ConnectCommand == [name |-> <<"connect">>, args |-> << <<Me>> >>]

Contains(seq, x) == \E i \in 1..Len(seq) : seq[i] = x
Without(seq, x) == SelectSeq(seq, LAMBDA e : e # x)
EmptyMap == [k \in {} |-> 0]
MapInsert(m, k, v) == [x \in (DOMAIN m) \cup {k} |-> IF x = k THEN v ELSE m[x]]

-----------------------------------------------------------------------------
(* Messages and events *)

IncomingChat(j) == [dir |-> "Incoming", type |-> "Chat", peer |-> j, body |-> <<"hi">>]
OutgoingChat(j, body) == [dir |-> "Outgoing", type |-> "Chat", peer |-> j, body |-> body]
IncomingGroupchat(j) == [dir |-> "Incoming", type |-> "Groupchat", peer |-> j, body |-> <<"hi">>]
OutgoingGroupchat(j, body) == [dir |-> "Outgoing", type |-> "Groupchat", peer |-> j, body |-> body]
Log(body) == [dir |-> "Log", type |-> "Log", peer |-> "", body |-> body]

XmppMessages ==
    UNION {{IncomingChat(j), OutgoingChat(j, <<"hi">>),
            IncomingGroupchat(j), OutgoingGroupchat(j, <<"hi">>)} : j \in Jids}

EvMessage(account, m) == [type |-> "Message", account |-> account, message |-> m]
EvChat(j) == [type |-> "Chat", account |-> Me, contact |-> j]
EvJoined(j, ur) ==
    [type |-> "Joined", account |-> Me,
     channel |-> [bare |-> j, resource |-> Nick], user_request |-> ur]
EvWin(w) == [type |-> "Win", window |-> w]
EvReadPassword(cmd) == [type |-> "ReadPassword", command |-> cmd]
EvConnected == [type |-> "Connected", account |-> Me]
EvDisconnected == [type |-> "Disconnected"]
EvKey(k) == [type |-> "Key", key |-> k]
EvStanza == [type |-> "Stanza"]
EvOccupant(conversation, occupant) ==
    [type |-> "Occupant", conversation |-> conversation, occupant |-> occupant]
EvChangeWindow(w) == [type |-> "ChangeWindow", name |-> w]
EvResetCompletion == [type |-> "ResetCompletion"]
EvCommand(cmd) == [type |-> "Command", command |-> cmd]
EvCommandError(msg) == [type |-> "CommandError", msg |-> msg]
EvSendMessage(account, m) == [type |-> "SendMessage", account |-> account, message |-> m]
EvAutoComplete(account, conversation, raw_buf, cursor) ==
    [type |-> "AutoComplete", account |-> account, conversation |-> conversation,
     raw_buf |-> raw_buf, cursor |-> cursor]

\* termion::event::Key
KeyChar(c) == [k |-> "Char", c |-> c]
KeyAlt(c) == [k |-> "Alt", c |-> c]
KeyBackspace == [k |-> "Backspace", c |-> ""]
KeyPageUp == [k |-> "PageUp", c |-> ""]
KeyPageDown == [k |-> "PageDown", c |-> ""]
KeyEnter == KeyChar("\n")
KeyTab == KeyChar("\t")

\* UIEvent::AddWindow(name, view)
UIAddWindow(name, view) == [type |-> "AddWindow", name |-> name, view |-> view]

IsMessage(ev, dir, type) ==
    /\ ev.type = "Message"
    /\ ev.message.dir = dir
    /\ ev.message.type = type

-----------------------------------------------------------------------------
(* The view tree: LinearLayout [TitleBar, FrameLayout, WinBar, Input] *)

\* The windows held by the FrameLayout.  A console or group window is a
\* horizontal LinearLayout whose first child is the BufferedWin; the record
\* keeps that BufferedWin's items and its view offset (lines from the bottom).
ConsoleView == [kind |-> "console", jid |-> "", backlog |-> <<>>, offset |-> 0]
ChatView(jid) == [kind |-> "chat", jid |-> jid, backlog |-> <<>>, offset |-> 0]
GroupView(jid) ==
    [kind |-> "group", jid |-> jid, backlog |-> <<>>, offset |-> 0,
     roster |-> {}]    \* the second child: the ListView of the occupants

\* BufferedWin::recv_message
RecvMessage(view, m) == [view EXCEPT !.backlog = Append(@, m)]

\* BufferedWin::page_up and page_down: the offset moves by WinHeight - 1 lines
\* and stays within 0 and the lines above the visible ones, an item being
\* one line.
Min(a, b) == IF a < b THEN a ELSE b
Max(a, b) == IF a > b THEN a ELSE b
PageUp(view) ==
    [view EXCEPT !.offset = Min(@ + (WinHeight - 1), Max(0, Len(view.backlog) - WinHeight))]
PageDown(view) == [view EXCEPT !.offset = Max(0, @ - (WinHeight - 1))]

\* Every window taking the log lines: what C35 rules out.
AcceptsLogEverywhere(view, ev) == IsMessage(ev, "Log", "Log")

\* Whether the window's event closure hands the event's message to recv_message.
Accepts(view, ev) ==
    CASE view.kind = "chat" ->
             /\ \/ IsMessage(ev, "Incoming", "Chat")
                \/ IsMessage(ev, "Outgoing", "Chat")
             /\ ev.message.peer = view.jid
      [] view.kind = "group" ->
             /\ \/ IsMessage(ev, "Incoming", "Groupchat")
                \/ IsMessage(ev, "Outgoing", "Groupchat")
             /\ ev.message.peer = view.jid
      [] view.kind = "console" -> IsMessage(ev, "Log", "Log")

\* The event closure of the roster of a group window: ListView::insert of
\* an occupant of this room, the items being unique.
RosterEvent(view, ev) ==
    IF ev.conversation = view.jid THEN [view EXCEPT !.roster = @ \cup {ev.occupant}]
    ELSE view

\* The event closure of a window (chat, group or console).
WindowEvent(view, ev) ==
    IF Accepts(view, ev) THEN RecvMessage(view, ev.message)
    ELSE IF ev.type = "Occupant" /\ view.kind = "group" THEN RosterEvent(view, ev)
    ELSE IF ev.type = "Key" /\ ev.key = KeyPageUp THEN PageUp(view)
    ELSE IF ev.type = "Key" /\ ev.key = KeyPageDown THEN PageDown(view)
    ELSE view

\* TitleBar::event
TitleBarEvent(title_bar, ev) ==
    IF ev.type = "ChangeWindow" THEN [title_bar EXCEPT !.window_name = Some(ev.name)]
    ELSE title_bar

\* FrameLayout::insert and FrameLayout::current (children keyed by name).
FrameInsert(frame, name, view) == [frame EXCEPT !.children = MapInsert(@, name, view)]
FrameCurrent(frame, name) == [frame EXCEPT !.current = Some(name)]

\* The event closure of the FrameLayout: select or insert, then hand the
\* event to every child.
FrameEvent(frame, ev) ==
    LET f1 == CASE ev.type = "ChangeWindow" -> FrameCurrent(frame, ev.name)
                [] ev.type = "AddWindow" -> FrameInsert(frame, ev.name, ev.view)
                [] OTHER -> frame
    IN  [f1 EXCEPT !.children = [k \in DOMAIN f1.children |-> WindowEvent(f1.children[k], ev)]]

\* WinBar::add_window, set_current_window, highlight_window
WinBarAddWindow(win_bar, window) == [win_bar EXCEPT !.windows = Append(@, window)]
WinBarSetCurrentWindow(win_bar, window) ==
    [win_bar EXCEPT !.current_window = Some(window), !.highlighted = Without(@, window)]
WinBarHighlightWindow(win_bar, window) ==
    IF Contains(win_bar.highlighted, window) THEN win_bar
    ELSE [win_bar EXCEPT !.highlighted = Append(@, window)]

\* WinBar::redraw, the loop over the highlighted windows and the closing
\* bracket: `written` is the count the code keeps, `cells` the character
\* cells written to the row so far.
RECURSIVE RedrawHighlighted(_, _, _, _, _)
RedrawHighlighted(highlighted, w, written, cells, first) ==
    LET closing == IF first THEN 0 ELSE 1                \* "]"
    IN  IF highlighted = <<>> THEN cells + closing
        ELSE LET window == Head(highlighted)
             IN  IF Len(window) + written + 4 > w
                 THEN cells + (IF first THEN 0 ELSE 3) + closing     \* ", …"
                 ELSE IF first
                 THEN RedrawHighlighted(Tail(highlighted), w,         \* " ["
                                        written + 3 + Len(window),
                                        cells + 2 + Len(window), FALSE)
                 ELSE RedrawHighlighted(Tail(highlighted), w,         \* ", "
                                        written + 2 + Len(window),
                                        cells + 2 + Len(window), FALSE)

\* WinBar::redraw on a row of w cells: the character cells of text it writes
\* after it has blanked the row (" connection", " [current]", the
\* highlighted windows).
WinBarRedraw(win_bar, w) ==
    LET connection == IF IsSome(win_bar.connection)
                      THEN 1 + Len(Unwrap(win_bar.connection)) ELSE 0
        current == IF IsSome(win_bar.current_window)
                   THEN 3 + Len(Unwrap(win_bar.current_window)) ELSE 3
    IN  RedrawHighlighted(win_bar.highlighted, w, connection + current,
                          connection + current, TRUE)

\* WinBar::event
WinBarEvent(win_bar, ev) ==
    CASE ev.type = "ChangeWindow" -> WinBarSetCurrentWindow(win_bar, ev.name)
      [] ev.type = "AddWindow" -> WinBarAddWindow(win_bar, ev.name)
      [] ev.type = "Connected" -> [win_bar EXCEPT !.connection = Some(ev.account)]
      [] IsMessage(ev, "Incoming", "Chat") \/ IsMessage(ev, "Incoming", "Groupchat") ->
             IF /\ Contains(win_bar.windows, ev.message.peer)
                /\ Some(ev.message.peer) # win_bar.current_window
             THEN WinBarHighlightWindow(win_bar, ev.message.peer)
             ELSE win_bar
      [] OTHER -> win_bar

\* Input::key, Input::backspace, Input::password, Input::validate
InputKey(input, c) ==
    [input EXCEPT
        !.buf = SubSeq(@, 1, input.cursor) \o <<c>> \o SubSeq(@, input.cursor + 1, Len(@)),
        !.cursor = @ + 1]
InputBackspace(input) ==
    IF input.cursor = 0 THEN input
    ELSE [input EXCEPT
            !.buf = SubSeq(@, 1, input.cursor - 1) \o SubSeq(@, input.cursor + 1, Len(@)),
            !.cursor = @ - 1]
InputPassword(input) == [input EXCEPT !.password = TRUE]
InputValidate(input) == [buf |-> <<>>, cursor |-> 0, password |-> FALSE]

\* The event closure of the Input (UIEvent::Validate and UIEvent::GetInput,
\* which return a value, are InputValidate and the input record itself).
InputEvent(input, ev) ==
    CASE ev.type = "Key" /\ ev.key.k = "Char" -> InputKey(input, ev.key.c)
      [] ev.type = "Key" /\ ev.key.k = "Backspace" -> InputBackspace(input)
      [] ev.type = "ReadPassword" -> InputPassword(input)
      [] OTHER -> input

\* The event closure of the root LinearLayout: every child gets the event.
RootEvent(root, ev) ==
    [title_bar |-> TitleBarEvent(root.title_bar, ev),
     frame |-> FrameEvent(root.frame, ev),
     win_bar |-> WinBarEvent(root.win_bar, ev),
     input |-> InputEvent(root.input, ev)]

\* self.root.event(&mut UIEvent::Validate(..)): the Input alone reacts.
RootValidate(root) == [root EXCEPT !.input = InputValidate(@)]

-----------------------------------------------------------------------------
(* UIPlugin.  `self` is the record of the plugin's fields:                  *)
(* windows, current_window, unread_windows, conversations, root,           *)
(* password_command.  A handler returns the fields it leaves, the events   *)
(* it handed to aparte.schedule, and whether it panicked.                  *)

Returns(self, events) == [self |-> self, scheduled |-> events, panic |-> FALSE]
Panics(self) == [self |-> self, scheduled |-> <<>>, panic |-> TRUE]

\* LinkedHashSet::insert (crate linked_hash_set): the value ends up at the
\* end of the ordering whether the set already contained it or not.
LinkedHashSetInsert(set, value) == Append(Without(set, value), value)

\* Conversation { account, jid, kind }
Conversation(account, jid, kind) == [account |-> account, jid |-> jid, kind |-> kind]

\* Jid -> BareJid (`channel.clone().into()`): the resource is dropped.
BareOf(jid) == jid.bare

\* UIPlugin::add_conversation
AddConversation(self, conversation) ==
    LET name == conversation.jid
        view == IF conversation.kind = "Chat" THEN ChatView(name) ELSE GroupView(name)
    IN  [self EXCEPT
            !.windows = Append(@, name),
            !.root = RootEvent(@, UIAddWindow(name, view)),
            !.conversations = MapInsert(@, name, conversation)]

\* change_window without the event into the view tree: what C32 rules out.
ChangeWindowSilently(self, window) == [self EXCEPT !.current_window = Some(window)]

\* UIPlugin::change_window
ChangeWindow(self, window) ==
    [self EXCEPT
        !.root = RootEvent(@, EvChangeWindow(window)),
        !.current_window = Some(window)]

\* The same without the contains_key test: what C6 rules out.
AlwaysAddConversation(self, account, name, kind) ==
    AddConversation(self, Conversation(account, name, kind))

\* `if !self.conversations.contains_key(&name) { self.add_conversation(..) }`
EnsureConversation(self, account, name, kind) ==
    IF name \in DOMAIN self.conversations THEN self
    ELSE AddConversation(self, Conversation(account, name, kind))

\* The loop over self.windows that picks the window to mark unread.
UnreadWindow(self, from) ==
    IF Contains(self.windows, from) /\ Some(from) # self.current_window
    THEN Some(from) ELSE None

\* Event::Message without the final self.root.event(..): what C5 rules out.
OnMessageNotForwarded(self, ev) ==
    LET m == ev.message
        kind == IF m.type = "Chat" THEN "Chat" ELSE "Group"
        s1 == IF m.dir = "Log" THEN self
              ELSE EnsureConversation(self, Unwrap(ev.account), m.peer, kind)
        unread == IF m.dir = "Incoming" THEN UnreadWindow(s1, m.peer) ELSE None
    IN  Returns(IF IsSome(unread)
                THEN [s1 EXCEPT !.unread_windows = LinkedHashSetInsert(@, Unwrap(unread))]
                ELSE s1, <<>>)

\* on_event, Event::Message
OnMessage(self, ev) ==
    LET m == ev.message
        kind == IF m.type = "Chat" THEN "Chat" ELSE "Group"
        s1 == IF m.dir = "Log" THEN self
              ELSE EnsureConversation(self, Unwrap(ev.account), m.peer, kind)
        unread == IF m.dir = "Incoming" THEN UnreadWindow(s1, m.peer) ELSE None
        s2 == IF IsSome(unread)
              THEN [s1 EXCEPT !.unread_windows = LinkedHashSetInsert(@, Unwrap(unread))]
              ELSE s1
    IN  Returns([s2 EXCEPT !.root = RootEvent(@, ev)], <<>>)

\* Event::Chat opening a fresh window every time: what C27 rules out.
OnChatAlwaysAdd(self, ev) ==
    LET s1 == AddConversation(self, Conversation(ev.account, ev.contact, "Chat"))
    IN  Returns(ChangeWindow(s1, ev.contact), <<>>)

\* on_event, Event::Chat
OnChat(self, ev) ==
    LET s1 == EnsureConversation(self, ev.account, ev.contact, "Chat")
    IN  Returns(ChangeWindow(s1, ev.contact), <<>>)

\* Event::Joined switching whatever user_request is: what C8 rules out.
OnJoinedAlwaysChange(self, ev) ==
    LET win_name == BareOf(ev.channel)
        s1 == EnsureConversation(self, ev.account, win_name, "Group")
    IN  Returns(ChangeWindow(s1, win_name), <<>>)

\* on_event, Event::Joined
OnJoined(self, ev) ==
    LET win_name == BareOf(ev.channel)
        s1 == EnsureConversation(self, ev.account, win_name, "Group")
    IN  Returns(IF ev.user_request THEN ChangeWindow(s1, win_name) ELSE s1, <<>>)

\* Event::Win without the self.windows.contains test: what C7 and C37 rule
\* out.
OnWinUnchecked(self, ev) == Returns(ChangeWindow(self, ev.window), <<>>)

\* Aparte::log(text): schedule(Event::Message(None, Message::Log{..}))
AparteLog(text) == EvMessage(None, Log(text))

\* on_event, Event::Win
OnWin(self, ev) ==
    IF Contains(self.windows, ev.window)
    THEN Returns(ChangeWindow(self, ev.window), <<>>)
    ELSE Returns(self, <<AparteLog(<<"Unknown window ", ev.window>>)>>)

\* on_event, Event::ReadPassword
OnReadPassword(self, ev) ==
    Returns([self EXCEPT !.password_command = Some(ev.command),
                         !.root = RootEvent(@, ev)], <<>>)

\* Command::try_from(&*raw_buf).  The line after "/" is split at the
\* separators; the first token names a command of the root table, the others
\* are its positional parameters, one token each.  The table holds w, without
\* parameters, and b, which stands for /bookmark add and its required
\* parameters (bookmarks.rs:36-38), one token here.
CommandNames == {<<"w">>, <<"b">>}
Positionals(name) == IF name = <<"b">> THEN 1 ELSE 0
RECURSIVE Tokens(_)
Tokens(line) ==
    IF line = <<>> THEN <<>>
    ELSE IF Head(line) = " " THEN Tokens(Tail(line))
    ELSE LET n == CHOOSE k \in 1..Len(line) :
                    /\ \A i \in 1..k : line[i] # " "
                    /\ (k = Len(line) \/ line[k + 1] = " ")
         IN  <<SubSeq(line, 1, n)>> \o Tokens(SubSeq(line, n + 1, Len(line)))

\* A parser that takes whatever parameters the line has, missing ones
\* included: what C11 rules out.
CommandTryFromAnyArgs(raw_buf) ==
    LET tokens == Tokens(Tail(raw_buf))
    IN  IF tokens # <<>> /\ Head(tokens) \in CommandNames
        THEN [ok |-> TRUE, command |-> [name |-> Head(tokens), args |-> Tail(tokens)]]
        ELSE [ok |-> FALSE, error |-> <<"Unknown command ", raw_buf>>]

CommandTryFrom(raw_buf) ==
    LET tokens == Tokens(Tail(raw_buf))
    IN  IF tokens = <<>> \/ Head(tokens) \notin CommandNames
        THEN [ok |-> FALSE, error |-> <<"Unknown command ", raw_buf>>]
        ELSE IF Len(tokens) - 1 # Positionals(Head(tokens))
        THEN [ok |-> FALSE, error |-> <<"Bad arguments ", raw_buf>>]
        ELSE [ok |-> TRUE, command |-> [name |-> Head(tokens), args |-> Tail(tokens)]]

StartsWithSlash(raw_buf) == Len(raw_buf) > 0 /\ raw_buf[1] = "/"

\* on_event, Event::Key(Key::Char('\t'))
OnKeyTab(self, account) ==
    LET input == self.root.input
        cur == self.current_window
        conv == IF IsSome(cur) /\ Unwrap(cur) \in DOMAIN self.conversations
                THEN Some(self.conversations[Unwrap(cur)]) ELSE None
    IN  IF input.password THEN Returns(self, <<EvKey(KeyTab)>>)
        ELSE Returns(self,
                <<EvAutoComplete(IF IsSome(conv) THEN Some(Unwrap(conv).account) ELSE None,
                                 IF IsSome(conv) THEN Some(Unwrap(conv).jid) ELSE None,
                                 input.buf, input.cursor)>>)

\* The message branch of Enter: a non-empty line that is no command.
SendLine(self, account, raw_buf) ==
    LET cur == self.current_window
    IN  IF IsSome(cur) /\ Unwrap(cur) \in DOMAIN self.conversations
        THEN LET conversation == self.conversations[Unwrap(cur)]
             IN  IF ~IsSome(account) THEN Panics(self)
                 ELSE IF conversation.kind = "Chat"
                 THEN Returns(self, <<EvSendMessage(Unwrap(account),
                                        OutgoingChat(conversation.jid, raw_buf))>>)
                 ELSE Returns(self, <<EvSendMessage(Unwrap(account),
                                        OutgoingGroupchat(conversation.jid, raw_buf))>>)
        ELSE Returns(self, <<>>)

\* Enter testing starts_with("/") before the password flag: what C9 rules out.
OnKeyEnterCommandFirst(self, account) ==
    LET raw_buf == self.root.input.buf
        password == self.root.input.password
        s1 == [self EXCEPT !.root = RootValidate(@)]
    IN  IF StartsWithSlash(raw_buf)
        THEN LET parsed == CommandTryFrom(raw_buf)
             IN  IF parsed.ok THEN Returns(s1, <<EvCommand(parsed.command)>>)
                 ELSE Returns(s1, <<EvCommandError(parsed.error)>>)
        ELSE IF password /\ IsSome(s1.password_command)
        THEN Returns([s1 EXCEPT !.password_command = None],
                     <<EvCommand([Unwrap(s1.password_command) EXCEPT
                                     !.args = Append(@, raw_buf)])>>)
        ELSE Returns(s1, <<>>)

\* on_event, Event::Key(Key::Char('\n'))
OnKeyEnter(self, account) ==
    LET raw_buf == self.root.input.buf
        password == self.root.input.password
        s1 == [self EXCEPT !.root = RootValidate(@)]
    IN  IF password
        THEN IF ~IsSome(s1.password_command) THEN Panics(s1)
             ELSE LET command == Unwrap(s1.password_command)
                  IN  Returns([s1 EXCEPT !.password_command = None],
                              <<EvCommand([command EXCEPT !.args = Append(@, raw_buf)])>>)
        ELSE IF StartsWithSlash(raw_buf)
        THEN LET parsed == CommandTryFrom(raw_buf)
             IN  IF parsed.ok THEN Returns(s1, <<EvCommand(parsed.command)>>)
                 ELSE Returns(s1, <<EvCommandError(parsed.error)>>)
        ELSE IF Len(raw_buf) > 0 THEN SendLine(s1, account, raw_buf)
        ELSE Returns(s1, <<>>)

\* Alt-a taking the newest unread window (pop_back): what C3 rules out.
OnKeyAltAPopBack(self) ==
    IF self.unread_windows # <<>>
    THEN LET n == Len(self.unread_windows)
             window == self.unread_windows[n]
         IN  Returns(ChangeWindow([self EXCEPT !.unread_windows = SubSeq(@, 1, n - 1)],
                                  window), <<>>)
    ELSE Returns(self, <<>>)

\* on_event, Event::Key(Key::Alt('a'))
OnKeyAltA(self) ==
    IF self.unread_windows # <<>>
    THEN LET window == Head(self.unread_windows)
         IN  Returns(ChangeWindow([self EXCEPT !.unread_windows = Tail(@)], window), <<>>)
    ELSE Returns(self, <<>>)

\* on_event, Event::Key
OnKey(self, ev, account) ==
    CASE ev.key = KeyTab -> OnKeyTab(self, account)
      [] ev.key = KeyEnter -> OnKeyEnter(self, account)
      [] ev.key = KeyAlt("a") -> OnKeyAltA(self)
      [] OTHER -> Returns([self EXCEPT !.root = RootEvent(@, ev)], <<EvResetCompletion>>)

\* UIPlugin::on_event.  `account` is aparte.current_account().
OnEvent(self, ev, account) ==
    CASE ev.type = "ReadPassword" -> OnReadPassword(self, ev)
      [] ev.type = "Message" -> OnMessage(self, ev)
      [] ev.type = "Chat" -> OnChat(self, ev)
      [] ev.type = "Joined" -> OnJoined(self, ev)
      [] ev.type = "Win" -> OnWin(self, ev)
      [] ev.type = "Key" -> OnKey(self, ev, account)
      [] OTHER -> Returns([self EXCEPT !.root = RootEvent(@, ev)], <<>>)

\* UIPlugin::new
New ==
    [windows |-> <<>>,
     current_window |-> None,
     unread_windows |-> <<>>,
     conversations |-> EmptyMap,
     password_command |-> None,
     root |-> [title_bar |-> [window_name |-> None],
               frame |-> [children |-> EmptyMap, current |-> None],
               win_bar |-> [connection |-> None, windows |-> <<>>,
                            current_window |-> None, highlighted |-> <<>>],
               input |-> [buf |-> <<>>, cursor |-> 0, password |-> FALSE]]]

\* UIPlugin::init: the console window is added and made current.
PluginInit(self) ==
    ChangeWindow([self EXCEPT !.windows = Append(@, Console),
                              !.root = RootEvent(@, UIAddWindow(Console, ConsoleView))],
                 Console)

-----------------------------------------------------------------------------
(* BookmarksPlugin (bookmarks.rs) and the session core.  The core keeps the *)
(* queue of pending events: schedule puts an event at its tail, the main    *)
(* loop takes the event at its head, hands it to every plugin in            *)
(* registration order, the UI plugin last, and goes on until the queue is   *)
(* empty.                                                                   *)

\* ns::BOOKMARKS2
BOOKMARKS2 == "urn:xmpp:bookmarks:1"

\* Jid: a bare jid, with a resource (Jid::Full) or without (Jid::Bare);
\* BareJid::from(jid) drops the resource.
Jid(bare, resource) == [bare |-> bare, resource |-> resource]
BareJidFrom(jid) == jid.bare

\* BookmarksPlugin::retreive: the iq that asks for the items of the node.
\* id is the Uuid::new_v4() of the call.
BookmarksRetreive(id) ==
    [id |-> id, type |-> "get",
     pubsub |-> [kind |-> "items", node |-> BOOKMARKS2, max_items |-> None,
                 subid |-> None, items |-> <<>>]]

\* BookmarksPlugin::add: the iq that publishes one conference.
BookmarksAdd(id, name, conference, nick, autojoin) ==
    [id |-> id, type |-> "set",
     pubsub |-> [kind |-> "publish", node |-> BOOKMARKS2,
                 items |-> <<[id |-> Some(conference), publisher |-> None,
                              payload |-> [autojoin |-> autojoin, name |-> Some(name),
                                           nick |-> nick, password |-> None]]>>,
                 publish_options |-> [persist_items |-> <<"true">>,
                                      access_model |-> <<"whitelist">>]]]

\* on_event asking for the bookmarks on every event: what C22 rules out.
BookmarksOnEveryEvent(id, ev) == <<BookmarksRetreive(id)>>

\* BookmarksPlugin::on_event: the bookmarks are asked for on Connected.
BookmarksOnEvent(id, ev) ==
    IF ev.type = "Connected" THEN <<BookmarksRetreive(id)>> ELSE <<>>

\* The callback of bookmark_add keeping the resource in the item id: what
\* C21 rules out.
BookmarkAddFullJid(id, name, conference, autojoin) ==
    <<BookmarksAdd(id, name,
                   IF IsSome(conference.resource)
                   THEN conference.bare \o "/" \o Unwrap(conference.resource)
                   ELSE conference.bare,
                   conference.resource,
                   IF IsSome(autojoin) THEN Unwrap(autojoin) ELSE FALSE)>>

\* The callback of bookmark_add with its parameters name: String,
\* conference: Jid, autojoin: Option<bool>; the stanzas it hands to
\* aparte.send.
BookmarkAddCallback(id, name, conference, autojoin) ==
    LET nick == conference.resource
        aj == IF IsSome(autojoin) THEN Unwrap(autojoin) ELSE FALSE
    IN  <<BookmarksAdd(id, name, BareJidFrom(conference), nick, aj)>>

\* The callbacks of bookmark_del and bookmark_edit: Ok(()).
BookmarkDelCallback(id, name) == <<>>
BookmarkEditCallback(id, name) == <<>>

\* The stanzas handed to Aparte::send while ev is dispatched: by the callback
\* of the command of an Event::Command, then by the plugins.  The one
\* parameter of the command b is the name of the bookmark and its bare
\* conference jid; the ids are left out.
SentBy(ev) ==
    (IF ev.type = "Command" /\ ev.command.name = <<"b">>
     THEN BookmarkAddCallback("uuid", ev.command.args[1],
                              Jid(ev.command.args[1], None), None)
     ELSE <<>>) \o BookmarksOnEvent("uuid", ev)

\* The session of the BookmarksPlugin after BookmarksPlugin::new.
BookmarksStart ==
    [uuids |-> 0,         \* calls of Uuid::new_v4 so far
     ids |-> <<>>,        \* history: the ids of the iqs sent, in order
     sent |-> <<>>,       \* the stanzas handed to aparte.send by the last step
     pending |-> {},      \* the core's map {id -> callback}: its ids
     answered |-> {},     \* history: the ids the server has answered
     resolved |-> <<>>,   \* history: the ids resolved, by a response or a
                          \* cancellation, one entry each time
     connected |-> FALSE,
     input |-> [type |-> "Init"]]   \* what the last step handled

\* Uuid::new_v4(): an id that no call has returned before.
NewUuid(b) == b.uuids + 1

\* Aparte::send: the stanzas go to the outbound sink.  No callback comes with
\* a stanza, so the map of pending iqs gets no entry.
AparteSend(b, stanzas) ==
    [b EXCEPT !.sent = stanzas,
              !.ids = @ \o [i \in 1..Len(stanzas) |-> stanzas[i].id],
              !.uuids = @ + Len(stanzas)]

\* The core gets the response to an iq: the callback the map holds for its id
\* is called and the entry removed; without an entry the response is handed
\* to the plugins as Event::Stanza.
CoreResponse(b, id) ==
    IF id \in b.pending
    THEN [b EXCEPT !.pending = @ \ {id}, !.resolved = Append(@, id)]
    ELSE AparteSend(b, BookmarksOnEvent(NewUuid(b), EvStanza))

\* The core on disconnect: every pending iq is cancelled.
RECURSIVE SetToSeq(_)
SetToSeq(set) ==
    IF set = {} THEN <<>>
    ELSE LET x == CHOOSE y \in set : \A z \in set : y <= z
         IN  <<x>> \o SetToSeq(set \ {x})
CoreCancel(b) == [b EXCEPT !.resolved = @ \o SetToSeq(b.pending), !.pending = {}]

\* What /bookmark is given: names, conference jids with or without a
\* resource, the autojoin option.
BookmarkNames == {"aparte", "muc"}
Conferences == {Jid("room@conf.x", None), Jid("room@conf.x", Some("mynick"))}
Autojoins == {None, Some(TRUE), Some(FALSE)}

\* The main loop takes the newest event first: what C16 rules out.
NewestEvent(queue) == queue[Len(queue)]

\* The event the main loop dispatches next, and Aparte::schedule.
NextEvent(queue) == Head(queue)
Schedule(queue, events) == queue \o events

-----------------------------------------------------------------------------
(* TermionEventStream (ui.rs:1206-1275): a thread reads the terminal byte   *)
(* by byte, wakes the AtomicWaker and sends the byte over the channel; the  *)
(* task of the main loop polls the stream.                                  *)

\* What the terminal sends, one byte standing for the sequence of a key: a
\* key that EventStream::poll_next publishes, PageUp, which termion parses and
\* EventStream::poll_next has no arm for, and a sequence that
\* termion_parse_event makes no event of.
Bytes == {"key", "PageUp", "unparsed"}

\* The arms of EventStream::poll_next that return Event::Key: Char,
\* Backspace, Delete, Home, End, Up, Down, Left, Right, Ctrl, Alt.
Published(byte) == byte = "key"

\* The keys the view tree has a binding for: those of the Input, and PageUp
\* and PageDown in the event closures of the windows.
Bound(byte) == byte \in {"key", "PageUp"}

\* TermionEventStream::new.  The thread waits for a byte; the task has been
\* spawned, so it will be polled; nothing is registered with the waker.
TermionEventStreamNew ==
    [channel |-> <<>>,      \* the bytes sent and not yet received
     waker |-> FALSE,       \* AtomicWaker: a waker of the task is registered
     notified |-> TRUE,     \* the task has been woken and will be polled
     reader |-> "bytes",    \* the thread: bytes (blocked in read), wake, send
     byte |-> None,         \* the byte the thread has read
     poll |-> "returned",   \* poll_next: try_recv, register, returned
     result |-> None,       \* what the last poll_next returned
     taken |-> None,        \* the byte the last poll_next took off the channel
     read |-> 0]            \* bytes read so far

\* AtomicWaker::wake: the registered waker is taken and its task woken.
Wake(t) == [t EXCEPT !.waker = FALSE, !.notified = @ \/ t.waker]

\* AtomicWaker::register
Register(t) == [t EXCEPT !.waker = TRUE]

-----------------------------------------------------------------------------
(* main and main_loop (main.rs).  The plugins are registered and            *)
(* initialised, then the stream of the client is served on a                *)
(* current_thread runtime while a spawned task forwards the outbound        *)
(* channel to the sink.                                                     *)

\* plugin_manager.add::<Disco>(..), plugin_manager.add::<CarbonsPlugin>(..)
Registered == <<"disco", "carbons">>

\* main, after plugin_manager.add: init is about to be called.
MainStart ==
    [pc |-> "init",       \* init, running (block_on(done)), returned, panicked
     inits |-> <<>>,      \* history: the init calls and what they returned
     events |-> <<>>,     \* history: the notifications the plugins received
     online |-> 0,        \* online events of the stream so far
     stanzas |-> 0,       \* inbound stanzas handled so far
     stanza |-> None,     \* the inbound stanza handled last
     printed |-> <<>>,    \* what handle_stanza printed for it
     tx |-> <<>>,         \* the unbounded channel (tx, rx)
     sink |-> <<>>,       \* history: the packets forwarded to the sink
     sent |-> <<>>]       \* history: the packets handed to tx.start_send

\* PluginManager::init: the plugins are initialised in registration order;
\* the first Err ends the loop and is returned.  ok[i] is what the init of
\* the i-th plugin returns.
RECURSIVE InitCalls(_, _)
InitCalls(ok, i) ==
    IF i > Len(Registered) THEN <<>>
    ELSE <<[plugin |-> Registered[i], ok |-> ok[i]]>>
            \o (IF ok[i] THEN InitCalls(ok, i + 1) ELSE <<>>)
InitResult(calls) == \A i \in 1..Len(calls) : calls[i].ok

\* main going on to main_loop whatever init returned: what C20 rules out.
InitIgnored(result) == "running"

\* plugin_manager.init().unwrap(); main_loop(client, plugin_manager)
InitUnwrap(result) == IF result THEN "running" ELSE "panicked"

\* The inbound stanzas: an iq, and messages with or without a sender and
\* a body, of type chat or error, with no payload or with one carbons
\* "received" payload around a forwarded message of alice@x that has a body
\* or none.
Forwarded(body) == [from |-> Some("alice@x"), body |-> body]
Received(stanza) == [received |-> TRUE, forwarded |-> stanza]
InboundMessage(from, type, body, payloads) ==
    [message |-> TRUE, from |-> from, type |-> type, body |-> body, payloads |-> payloads]
InboundStanzas ==
    {[message |-> FALSE]} \cup
    {InboundMessage(from, type, body, payloads) :
        from \in {None, Some(Me), Some("alice@x")},
        type \in {"chat", "error"},
        body \in {None, Some("hi")},
        payloads \in {<<>>,
                      <<Received(Some(Forwarded(Some("yo"))))>>,
                      <<Received(Some(Forwarded(None)))>>,
                      <<Received(None)>>}}

\* The loop of handle_message over the payloads of a message without body:
\* the first carbons "received" whose forwarded message has a body is
\* printed, under the sender of the message that carries it.
RECURSIVE HandlePayloads(_, _)
HandlePayloads(message, payloads) ==
    IF payloads = <<>> THEN <<>>
    ELSE LET payload == Head(payloads)
         IN  IF /\ payload.received
                /\ IsSome(payload.forwarded)
                /\ message.type # "error"
                /\ IsSome(Unwrap(payload.forwarded).body)
             THEN << <<Unwrap(message.from), Unwrap(Unwrap(payload.forwarded).body)>> >>
             ELSE HandlePayloads(message, Tail(payloads))

\* handle_message: the lines printed, each a sender and a body.
HandleMessage(message) ==
    IF ~IsSome(message.from) THEN <<>>
    ELSE IF IsSome(message.body)
    THEN IF message.type # "error"
         THEN << <<Unwrap(message.from), Unwrap(message.body)>> >>
         ELSE <<>>
    ELSE HandlePayloads(message, message.payloads)

\* handle_stanza: Message::try_from(stanza).ok()
HandleStanza(stanza) == IF stanza.message THEN HandleMessage(stanza) ELSE <<>>

\* PluginManager::on_connect(&mut tx): every plugin is notified in
\* registration order and sends its stanza (the disco#info query, the
\* carbons enable iq); n tells the connections apart.
RECURSIVE OnConnect(_, _)
OnConnect(n, i) ==
    IF i > Len(Registered) THEN <<>>
    ELSE <<[stanza |-> Registered[i], online |-> n]>> \o OnConnect(n, i + 1)
Presence(n) == [stanza |-> "presence", online |-> n]

-----------------------------------------------------------------------------
(* State *)

VARIABLES
    windows,          \* UIPlugin.windows: Vec<String>
    current_window,   \* UIPlugin.current_window: Option<String>
    unread_windows,   \* UIPlugin.unread_windows: LinkedHashSet<String>, in order
    conversations,    \* UIPlugin.conversations: HashMap<String, Conversation>
    password_command, \* UIPlugin.password_command: Option<Command>
    root,             \* UIPlugin.root: the view tree
    account,          \* aparte.current_account(): Option<Account>
    scheduled,        \* the events the last handler handed to aparte.schedule
    last,             \* the event the last handler was called with
    aborted,          \* a handler panicked: the process is gone
    first_unread,     \* history: the unread windows, by the time each became unread
    announced,        \* history: the <<room, occupant>> of the Occupant events
    core,             \* Aparte: the event queue, the stanzas sent by the last
                      \* dispatch, history: the states this drain went through
    tty,              \* TermionEventStream, its reader thread and the task
                      \* that polls it
    main,             \* main.rs: main and main_loop
    bm                    \* the BookmarksPlugin and the iqs of the session

vars == <<windows, current_window, unread_windows, conversations, password_command,
          root, account, scheduled, last, aborted, first_unread, announced,
          core, tty, main, bm>>

Self ==
    [windows |-> windows, current_window |-> current_window,
     unread_windows |-> unread_windows, conversations |-> conversations,
     password_command |-> password_command, root |-> root]

\* The history of the unread set: a window that left the set is dropped, a
\* window that entered it is added at the end.
FirstUnread(old, unread) ==
    SelectSeq(old, LAMBDA w : Contains(unread, w))
        \o SelectSeq(unread, LAMBDA w : ~Contains(old, w))

Init ==
    LET self == PluginInit(New)
    IN  /\ windows = self.windows
        /\ current_window = self.current_window
        /\ unread_windows = self.unread_windows
        /\ conversations = self.conversations
        /\ password_command = self.password_command
        /\ root = self.root
        /\ account = None
        /\ scheduled = <<>>
        /\ last = [type |-> "Init"]
        /\ aborted = FALSE
        /\ first_unread = <<>>
        /\ announced = {}
        /\ core = [queue |-> <<>>, sent |-> <<>>, seen |-> {}]
        /\ tty = TermionEventStreamNew
        /\ main = MainStart
        /\ bm = BookmarksStart

\* UIPlugin::on_event is called with one event.
Deliver(ev) ==
    /\ ~aborted
    /\ LET r == OnEvent(Self, ev, account)
       IN  /\ windows' = r.self.windows
           /\ current_window' = r.self.current_window
           /\ unread_windows' = r.self.unread_windows
           /\ conversations' = r.self.conversations
           /\ password_command' = r.self.password_command
           /\ root' = r.self.root
           /\ scheduled' = r.scheduled
           /\ aborted' = r.panic
           /\ first_unread' = FirstUnread(first_unread, r.self.unread_windows)
    /\ announced' = IF ev.type = "Occupant"
                    THEN announced \cup {<<ev.conversation, ev.occupant>>}
                    ELSE announced
    /\ last' = ev

\* The core hands one event to UIPlugin::on_event; its queue is left out.
Handle(ev) == Deliver(ev) /\ UNCHANGED <<core, tty, main, bm>>

\* The bounds: a message is delivered only while the BufferedWins hold fewer
\* than MaxBacklog items, a character typed only below MaxBuf.
RECURSIVE BacklogItems(_, _)
BacklogItems(children, names) ==
    IF names = {} THEN 0
    ELSE LET k == CHOOSE n \in names : TRUE
         IN  Len(children[k].backlog) + BacklogItems(children, names \ {k})
RoomInBacklogs ==
    BacklogItems(root.frame.children, DOMAIN root.frame.children) < MaxBacklog

-----------------------------------------------------------------------------
(* The events the core dispatches to the plugin.  Connected and            *)
(* Disconnected set and clear the core's current account; Event::Message,   *)
(* Chat and Joined carry the account and arrive while it is connected.      *)

ConnectedEvent ==
    /\ account = None
    /\ Handle(EvConnected)
    /\ account' = Some(Me)

DisconnectedEvent ==
    /\ account # None
    /\ Handle(EvDisconnected)
    /\ account' = None

MessageEvent(m) ==
    /\ account # None
    /\ RoomInBacklogs
    /\ Handle(EvMessage(account, m))
    /\ UNCHANGED account

LogEvent ==
    /\ RoomInBacklogs
    /\ Handle(EvMessage(None, Log(<<"log">>)))
    /\ UNCHANGED account

ChatEvent(j) ==
    /\ account # None
    /\ Handle(EvChat(j))
    /\ UNCHANGED account

JoinedEvent(j, user_request) ==
    /\ account # None
    /\ Handle(EvJoined(j, user_request))
    /\ UNCHANGED account

WinEvent(w) ==
    /\ Handle(EvWin(w))
    /\ UNCHANGED account

ReadPasswordEvent ==
    /\ Handle(EvReadPassword(ConnectCommand))
    /\ UNCHANGED account

KeyCharEvent(c) ==
    /\ Len(root.input.buf) < MaxBuf
    /\ Handle(EvKey(KeyChar(c)))
    /\ UNCHANGED account

KeyBackspaceEvent ==
    /\ Handle(EvKey(KeyBackspace))
    /\ UNCHANGED account

KeyEnterEvent ==
    /\ Handle(EvKey(KeyEnter))
    /\ UNCHANGED account

KeyTabEvent ==
    /\ Handle(EvKey(KeyTab))
    /\ UNCHANGED account

KeyAltAEvent ==
    /\ Handle(EvKey(KeyAlt("a")))
    /\ UNCHANGED account

KeyPageUpEvent ==
    /\ Handle(EvKey(KeyPageUp))
    /\ UNCHANGED account

KeyPageDownEvent ==
    /\ Handle(EvKey(KeyPageDown))
    /\ UNCHANGED account

-----------------------------------------------------------------------------
(* Specifications.  Each one lets the core dispatch the events that write   *)
(* or read one part of the plugin's state.                                  *)

\* Reading: incoming messages and every way of changing the window.  Left
\* out are the events that only write the Input or the password command,
\* which none of these handlers reads.
Next ==
    \/ ConnectedEvent
    \/ \E j \in Jids : MessageEvent(IncomingChat(j))
    \/ \E j \in Jids : MessageEvent(IncomingGroupchat(j))
    \/ \E j \in Jids : ChatEvent(j)
    \/ \E j \in Jids, user_request \in BOOLEAN : JoinedEvent(j, user_request)
    \/ \E w \in WinNames : WinEvent(w)
    \/ KeyAltAEvent

Spec == Init /\ [][Next]_vars

\* Cycling: messages arrive while the console stays current, and Alt-a walks
\* through the unread windows.
NextCycling ==
    \/ ConnectedEvent
    \/ \E j \in Jids : current_window = Some(Console) /\ MessageEvent(IncomingChat(j))
    \/ \E j \in Jids : current_window = Some(Console) /\ MessageEvent(IncomingGroupchat(j))
    \/ \E j \in Jids : current_window = Some(Console) /\ JoinedEvent(j, FALSE)
    \/ KeyAltAEvent

SpecCycling == Init /\ [][NextCycling]_vars

\* Conversations: every event that can create a conversation.
NextConversations ==
    \/ ConnectedEvent
    \/ \E m \in XmppMessages : MessageEvent(m)
    \/ \E j \in Jids : ChatEvent(j)
    \/ \E j \in Jids, user_request \in BOOLEAN : JoinedEvent(j, user_request)

SpecConversations == Init /\ [][NextConversations]_vars

\* Typing: the keys, the password prompt, the account and the console's log
\* lines, with the windows of one jid (of either kind) to type into.
InputJids == {"room@conf.x"}
NextInput ==
    \/ ConnectedEvent
    \/ DisconnectedEvent
    \/ \E j \in InputJids : ChatEvent(j)
    \/ \E j \in InputJids, user_request \in BOOLEAN : JoinedEvent(j, user_request)
    \/ WinEvent(Console)
    \/ LogEvent
    \/ ReadPasswordEvent
    \/ \E c \in Chars : KeyCharEvent(c)
    \/ KeyBackspaceEvent
    \/ KeyEnterEvent
    \/ KeyTabEvent

SpecInput == Init /\ [][NextInput]_vars

\* Scrolling: incoming Chat messages and log lines fill the backlogs, Chat
\* selects a window, PageUp and PageDown are handed to the plugin.
NextScroll ==
    \/ ConnectedEvent
    \/ \E j \in Jids : MessageEvent(IncomingChat(j))
    \/ LogEvent
    \/ \E j \in Jids : ChatEvent(j)
    \/ KeyPageUpEvent
    \/ KeyPageDownEvent

SpecScroll == Init /\ [][NextScroll]_vars

\* Window names: the peers include the domain-only jid "console" (what
\* `/msg console` or a message from the host console names), whose string is
\* the name UIPlugin::init gave to the console window.
WindowJids == {"alice@x", "console"}
NextWindows ==
    \/ ConnectedEvent
    \/ \E j \in WindowJids : MessageEvent(IncomingChat(j))
    \/ \E j \in WindowJids : ChatEvent(j)
    \/ \E j \in WindowJids, user_request \in BOOLEAN : JoinedEvent(j, user_request)
    \/ \E w \in WindowJids : WinEvent(w)
    \/ KeyAltAEvent

SpecWindows == Init /\ [][NextWindows]_vars

\* Rooms: the occupants of a room are announced, the room is joined, its
\* messages arrive.
Occupants == {"ann", "bob"}
OccupantEvent(j, occupant) ==
    /\ account # None
    /\ Handle(EvOccupant(j, occupant))
    /\ UNCHANGED account

NextOccupants ==
    \/ ConnectedEvent
    \/ \E j \in InputJids, occupant \in Occupants : OccupantEvent(j, occupant)
    \/ \E j \in InputJids, user_request \in BOOLEAN : JoinedEvent(j, user_request)
    \/ \E j \in InputJids : MessageEvent(IncomingGroupchat(j))
    \/ WinEvent(Console)

SpecOccupants == Init /\ [][NextOccupants]_vars

-----------------------------------------------------------------------------
(* The main loop of the core: select, then drain the queue.                 *)

\* What a drain goes on from: the plugin, the current account and the queue.
Config == <<Self, account, core.queue>>

\* select: with the queue empty, the main loop takes what one of its sources
\* has ready and puts it on the queue.
Select(events) ==
    /\ ~aborted
    /\ core.queue = <<>>
    /\ core' = [core EXCEPT !.queue = Schedule(@, events)]
    /\ UNCHANGED <<windows, current_window, unread_windows, conversations,
                   password_command, root, account, scheduled, last, aborted,
                   first_unread, announced, tty, main, bm>>

\* One turn of the drain: the event at the head is handed to the plugins and
\* what they scheduled is put at the tail.  A drain that is back in a state
\* it has been in goes round for ever; the model stops following it there.
Dispatch ==
    /\ core.queue # <<>>
    /\ Config \notin core.seen
    /\ LET ev == NextEvent(core.queue)
       IN  /\ Deliver(ev)
           /\ account' = IF ev.type = "Connected" THEN Some(ev.account) ELSE account
           /\ LET queue == Schedule(Tail(core.queue), scheduled')
              IN  core' = [queue |-> queue,
                           sent |-> SentBy(ev),
                           seen |-> IF queue = <<>> THEN {} ELSE core.seen \cup {Config}]
    /\ UNCHANGED <<tty, main, bm>>

KeyCharArrives(c) ==
    /\ Len(root.input.buf) < MaxLine
    /\ Select(<<EvKey(KeyChar(c))>>)

KeyEnterArrives == Select(<<EvKey(KeyEnter)>>)

KeyTabArrives == Select(<<EvKey(KeyTab)>>)

ReadPasswordArrives == Select(<<EvReadPassword(ConnectCommand)>>)

ConnectedArrives ==
    /\ account = None
    /\ Select(<<EvConnected>>)

\* An inbound message stanza: Event::Stanza, then the Event::Message it holds.
StanzaArrives(j) ==
    /\ account # None
    /\ RoomInBacklogs
    /\ Select(<<EvStanza, EvMessage(account, IncomingChat(j))>>)

NextQueue ==
    \/ \E c \in CommandChars : KeyCharArrives(c)
    \/ KeyEnterArrives
    \/ KeyTabArrives
    \/ ReadPasswordArrives
    \/ ConnectedArrives
    \/ \E j \in InputJids : StanzaArrives(j)
    \/ Dispatch

SpecQueue == Init /\ [][NextQueue]_vars

-----------------------------------------------------------------------------
(* The reader thread and poll_next, step by step.                           *)

TtyStep(t) ==
    /\ tty' = t
    /\ UNCHANGED <<windows, current_window, unread_windows, conversations,
                   password_command, root, account, scheduled, last, aborted,
                   first_unread, announced, core, main, bm>>

\* for i in get_tty().unwrap().bytes(): the next byte has been typed
ReaderBytes(b) ==
    /\ tty.reader = "bytes"
    /\ tty.read < MaxBytes
    /\ TtyStep([tty EXCEPT !.reader = "wake", !.byte = Some(b), !.read = @ + 1])

\* waker_for_tty.wake()
ReaderWake ==
    /\ tty.reader = "wake"
    /\ TtyStep([Wake(tty) EXCEPT !.reader = "send"])

\* send.send(i)
ReaderSend ==
    /\ tty.reader = "send"
    /\ TtyStep([tty EXCEPT !.reader = "bytes", !.byte = None,
                           !.channel = Append(@, Unwrap(tty.byte))])

\* The executor polls the task that was woken: poll_next is entered.
PollNext ==
    /\ tty.poll = "returned"
    /\ tty.notified
    /\ TtyStep([tty EXCEPT !.notified = FALSE, !.poll = "try_recv", !.result = None,
                           !.taken = None])

\* self.channel.try_recv(), termion_parse_event, then the match of
\* EventStream::poll_next: a published key is returned, and the main loop,
\* having handled it, polls again; with no byte, or with one that is dropped,
\* the waker is registered next.
PollTryRecv ==
    /\ tty.poll = "try_recv"
    /\ IF tty.channel = <<>>
       THEN TtyStep([tty EXCEPT !.poll = "register"])
       ELSE IF Published(Head(tty.channel))
       THEN TtyStep([tty EXCEPT !.channel = Tail(@), !.taken = Some(Head(tty.channel)),
                                !.poll = "returned", !.result = Some("Ready"),
                                !.notified = TRUE])
       ELSE TtyStep([tty EXCEPT !.channel = Tail(@), !.taken = Some(Head(tty.channel)),
                                !.poll = "register"])

\* self.waker.register(cx.waker()); return Poll::Pending
PollRegister ==
    /\ tty.poll = "register"
    /\ TtyStep([Register(tty) EXCEPT !.poll = "returned", !.result = Some("Pending")])

NextTty ==
    \/ \E b \in Bytes : ReaderBytes(b)
    \/ ReaderWake
    \/ ReaderSend
    \/ PollNext
    \/ PollTryRecv
    \/ PollRegister

SpecTty == Init /\ [][NextTty]_vars

-----------------------------------------------------------------------------
(* main.rs, step by step.                                                   *)

MainStep(m) ==
    /\ main' = m
    /\ UNCHANGED <<windows, current_window, unread_windows, conversations,
                   password_command, root, account, scheduled, last, aborted,
                   first_unread, announced, core, tty, bm>>

\* plugin_manager.init().unwrap()
PluginManagerInit(ok) ==
    /\ main.pc = "init"
    /\ LET calls == InitCalls(ok, 1)
       IN  MainStep([main EXCEPT !.inits = calls, !.pc = InitUnwrap(InitResult(calls))])

\* stream.for_each, event.is_online(): on_connect, then the presence.
Online ==
    /\ main.pc = "running"
    /\ main.online < MaxOnline
    /\ LET n == main.online + 1
           packets == OnConnect(n, 1) \o <<Presence(n)>>
       IN  MainStep([main EXCEPT
                !.online = n,
                !.events = @ \o [i \in 1..Len(Registered) |->
                                    [plugin |-> Registered[i], event |-> "on_connect"]],
                !.tx = @ \o packets,
                !.sent = @ \o packets])

\* stream.for_each, event.into_stanza(): handle_stanza prints the message.
InboundStanza(stanza) ==
    /\ main.pc = "running"
    /\ main.stanzas < MaxStanzas
    /\ MainStep([main EXCEPT !.stanzas = @ + 1, !.stanza = Some(stanza),
                             !.printed = HandleStanza(stanza)])

\* rx.forward(sink): the spawned task moves one packet to the sink.  It runs
\* only inside block_on.
Forward ==
    /\ main.pc = "running"
    /\ main.tx # <<>>
    /\ MainStep([main EXCEPT !.tx = Tail(@), !.sink = Append(@, Head(main.tx))])

\* The stream ends or fails: done is ready, block_on and main_loop return
\* and main ends; the runtime and the task it holds are dropped.
StreamEnds ==
    /\ main.pc = "running"
    /\ MainStep([main EXCEPT !.pc = "returned"])

NextMain ==
    \/ \E ok \in [1..Len(Registered) -> BOOLEAN] : PluginManagerInit(ok)
    \/ Online
    \/ \E stanza \in InboundStanzas : InboundStanza(stanza)
    \/ Forward
    \/ StreamEnds

SpecMain == Init /\ [][NextMain]_vars

-----------------------------------------------------------------------------
(* The BookmarksPlugin, event by event and command by command.              *)

BookmarksStep(b) ==
    /\ bm' = b
    /\ UNCHANGED <<windows, current_window, unread_windows, conversations,
                   password_command, root, account, scheduled, last, aborted,
                   first_unread, announced, core, tty, main>>

\* Event::Connected is dispatched to BookmarksPlugin::on_event.
BookmarksConnected ==
    /\ ~bm.connected
    /\ bm.uuids < MaxIq
    /\ BookmarksStep([AparteSend(bm, BookmarksOnEvent(NewUuid(bm), EvConnected))
                        EXCEPT !.connected = TRUE, !.input = EvConnected])

\* Event::Disconnected: the core cancels what is pending, then on_event.
BookmarksDisconnected ==
    /\ bm.connected
    /\ BookmarksStep([AparteSend(CoreCancel(bm), BookmarksOnEvent(NewUuid(bm), EvDisconnected))
                        EXCEPT !.connected = FALSE, !.input = EvDisconnected])

\* Another event is dispatched to BookmarksPlugin::on_event.
BookmarksOtherEvent(ev) ==
    BookmarksStep([AparteSend(bm, BookmarksOnEvent(NewUuid(bm), ev))
                     EXCEPT !.input = ev])

\* /bookmark add <name> <conference> [autojoin=on|off], parsed.
BookmarkAddCommand(name, conference, autojoin) ==
    /\ bm.connected
    /\ bm.uuids < MaxIq
    /\ BookmarksStep([AparteSend(bm, BookmarkAddCallback(NewUuid(bm), name, conference, autojoin))
                        EXCEPT !.input = [type |-> "Command", command |-> "add",
                                          name |-> name, conference |-> conference,
                                          autojoin |-> autojoin]])

\* /bookmark del <name>, parsed.
BookmarkDelCommand(name) ==
    /\ bm.connected
    /\ BookmarksStep([AparteSend(bm, BookmarkDelCallback(NewUuid(bm), name))
                        EXCEPT !.input = [type |-> "Command", command |-> "del",
                                          name |-> name]])

\* /bookmark edit <name>, parsed.
BookmarkEditCommand(name) ==
    /\ bm.connected
    /\ BookmarksStep([AparteSend(bm, BookmarkEditCallback(NewUuid(bm), name))
                        EXCEPT !.input = [type |-> "Command", command |-> "edit",
                                          name |-> name]])

\* The server answers an iq it has not answered yet.
BookmarksResponse(id) ==
    /\ bm.connected
    /\ Contains(bm.ids, id)
    /\ id \notin bm.answered
    /\ BookmarksStep([CoreResponse(bm, id)
                        EXCEPT !.answered = @ \cup {id},
                               !.input = [type |-> "Response", id |-> id]])

NextBookmarks ==
    \/ BookmarksConnected
    \/ BookmarksDisconnected
    \/ \E ev \in {EvStanza, EvResetCompletion, EvKey(KeyEnter)} : BookmarksOtherEvent(ev)
    \/ \E name \in BookmarkNames, conference \in Conferences, autojoin \in Autojoins :
          BookmarkAddCommand(name, conference, autojoin)
    \/ \E name \in BookmarkNames : BookmarkDelCommand(name)
    \/ \E name \in BookmarkNames : BookmarkEditCommand(name)
    \/ \E id \in 1..MaxIq : BookmarksResponse(id)

SpecBookmarks == Init /\ [][NextBookmarks]_vars

-----------------------------------------------------------------------------
(* Properties.  A step of a specification is one call of on_event, and      *)
(* last' is the event it was called with.                                   *)

IncomingStep == last'.type = "Message" /\ last'.message.dir = "Incoming"
AltAStep == last'.type = "Key" /\ last'.key = KeyAlt("a")
EnterStep == last'.type = "Key" /\ last'.key = KeyEnter

\* The window a step hands to change_window, if it calls it.
ChangeWindowStep ==
    CASE last'.type = "Win" /\ Contains(windows, last'.window) -> Some(last'.window)
      [] last'.type = "Chat" -> Some(last'.contact)
      [] last'.type = "Joined" /\ last'.user_request -> Some(BareOf(last'.channel))
      [] AltAStep /\ unread_windows # <<>> -> Some(Head(unread_windows))
      [] OTHER -> None

\* The jid an event refers to.
EventJid(ev) ==
    CASE ev.type = "Message" /\ ev.message.dir # "Log" -> Some(ev.message.peer)
      [] ev.type = "Chat" -> Some(ev.contact)
      [] ev.type = "Joined" -> Some(BareOf(ev.channel))
      [] OTHER -> None

NoDuplicates(seq) == \A i, k \in 1..Len(seq) : seq[i] = seq[k] => i = k

\* C1: an incoming Chat or Groupchat message whose sender window w is not the
\* current window appends w at the tail of the unread set if w was absent and
\* leaves the set as it is (same members, same order) if w was in it; a
\* message for the current window does not touch the unread set.
C1_UnreadKeepsOrder ==
    [][IncomingStep =>
        LET w == last'.message.peer
        IN  IF Some(w) = current_window \/ Contains(unread_windows, w)
            THEN unread_windows' = unread_windows
            ELSE unread_windows' = Append(unread_windows, w)]_vars

\* C2: every execution of change_window(w), from Win, Chat, Joined with
\* user_request or Alt-a, leaves w current and absent from the unread set.
C2_ChangeWindowClearsUnread ==
    [][IsSome(ChangeWindowStep) =>
        /\ current_window' = ChangeWindowStep
        /\ ~Contains(unread_windows', Unwrap(ChangeWindowStep))]_vars

\* C3: Alt-a with a non-empty unread set removes the head of the set and makes
\* it the current window, the other entries keeping their order; with an empty
\* unread set it changes neither the current window, the unread set nor the
\* window list.
C3_AltAPopsOldest ==
    [][AltAStep =>
        IF unread_windows # <<>>
        THEN /\ current_window' = Some(Head(unread_windows))
             /\ unread_windows' = Tail(unread_windows)
             /\ ~Contains(unread_windows', Head(unread_windows))
        ELSE UNCHANGED <<current_window, unread_windows, windows>>]_vars

\* C3 happens: Alt-a has just taken the console to a conversation window and
\* another window is still unread.
C3_Witness ==
    /\ last = EvKey(KeyAlt("a"))
    /\ IsSome(current_window) /\ Unwrap(current_window) \in Jids
    /\ unread_windows # <<>>
    /\ ~Contains(unread_windows, Unwrap(current_window))

\* C4: after messages received while one window (the console) stays current,
\* each Alt-a visits the window that became unread first among those still
\* unread, every unread window once, until the unread set is empty.
C4_VisitsInFirstUnreadOrder ==
    [][(AltAStep /\ unread_windows # <<>>) =>
        /\ current_window' = Some(Head(first_unread))
        /\ first_unread' = Tail(first_unread)
        /\ Len(unread_windows') = Len(first_unread')]_vars

C7_WinKnownOrLogged ==
    [][last'.type = "Win" =>
        IF Contains(windows, last'.window)
        THEN current_window' = Some(last'.window) /\ scheduled' = <<>>
        ELSE /\ scheduled' = <<EvMessage(None, Log(<<"Unknown window ", last'.window>>))>>
             /\ current_window' # Some(last'.window)
             /\ UNCHANGED <<current_window, windows, unread_windows>>]_vars

\* C7 happens: /win nowhere has just been answered by the log line, in a
\* conversation window with another window unread.
C7_Witness ==
    /\ last = EvWin("nowhere")
    /\ Len(scheduled) = 1
    /\ current_window # Some(Console)
    /\ unread_windows # <<>>

\* C8 as stated: Joined creates a Group conversation window for the bare
\* channel jid when none exists; afterwards the current window is that room
\* window if and only if user_request is true, and with user_request false
\* the current window is unchanged.
C8_CurrentIffUserRequest ==
    [][last'.type = "Joined" =>
        LET room == BareOf(last'.channel)
        IN  /\ room \notin DOMAIN conversations =>
                /\ windows' = Append(windows, room)
                /\ conversations'[room].kind = "Group"
            /\ (current_window' = Some(room)) <=> last'.user_request
            /\ ~last'.user_request => current_window' = current_window]_vars

\* C8: Joined creates a Group conversation window for the bare channel jid
\* when none exists; with user_request true the room window is current
\* afterwards, with user_request false the current window is unchanged
\* (the room window if it was current already).
C8_JoinedSwitchesOnRequest ==
    [][last'.type = "Joined" =>
        LET room == BareOf(last'.channel)
        IN  /\ room \notin DOMAIN conversations =>
                /\ windows' = Append(windows, room)
                /\ conversations'[room] = Conversation(last'.account, room, "Group")
            /\ last'.user_request => current_window' = Some(room)
            /\ ~last'.user_request => current_window' = current_window]_vars

\* C8 happens: Joined without user_request has just been handled for the room
\* whose window is current.
C8_Witness ==
    /\ last.type = "Joined" /\ ~last.user_request
    /\ current_window = Some(BareOf(last.channel))
    /\ conversations[BareOf(last.channel)].kind = "Group"

\* C9: in password mode (after ReadPassword(cmd)) Enter schedules exactly one
\* event, Command(cmd with the input line appended as its last argument),
\* whatever the line starts with; the captured command is consumed and the
\* input leaves password mode, so no second Enter gets the command.
C9_PasswordEnter ==
    [][(EnterStep /\ root.input.password) =>
        /\ IsSome(password_command)
        /\ scheduled' = <<EvCommand([Unwrap(password_command) EXCEPT
                                        !.args = Append(@, root.input.buf)])>>
        /\ password_command' = None
        /\ ~root'.input.password
        /\ root'.input.buf = <<>>
        /\ ~aborted']_vars

\* C9 happens: the password "/w", which is also the text of a command, has
\* just been handed to /connect.
C9_Witness ==
    /\ last = EvKey(KeyEnter)
    /\ scheduled = <<EvCommand([name |-> <<"connect">>, args |-> << <<Me>>, <<"/", "w">> >>])>>
    /\ password_command = None

\* C10: Enter (not in password mode) on a non-empty line that does not start
\* with "/" while the current window has a conversation schedules exactly one
\* SendMessage, of an outgoing Chat or Groupchat message by the conversation's
\* kind, to its jid, with the line as body; the key changes no backlog, nor
\* the unread set, nor the current window; Enter on an empty line schedules
\* nothing.
C10_EnterSendsMessage ==
    [][(EnterStep /\ ~root.input.password) =>
        LET raw_buf == root.input.buf
            name == Unwrap(current_window)
        IN  /\ (raw_buf # <<>> /\ ~StartsWithSlash(raw_buf) /\ name \in DOMAIN conversations) =>
                /\ Len(scheduled') = 1
                /\ scheduled'[1].type = "SendMessage"
                /\ scheduled'[1].message =
                      IF conversations[name].kind = "Chat"
                      THEN OutgoingChat(conversations[name].jid, raw_buf)
                      ELSE OutgoingGroupchat(conversations[name].jid, raw_buf)
            /\ raw_buf = <<>> => scheduled' = <<>>
            /\ root'.frame = root.frame
            /\ UNCHANGED <<unread_windows, current_window>>]_vars

\* A key has just been handled: Tab, or any key.
TabStep == last'.type = "Key" /\ last'.key = KeyTab
KeyStep == last'.type = "Key"
HasConversation(name) == IsSome(name) /\ Unwrap(name) \in DOMAIN conversations
RECURSIVE CountType(_, _)
CountType(events, type) ==
    IF events = <<>> THEN 0
    ELSE (IF Head(events).type = type THEN 1 ELSE 0) + CountType(Tail(events), type)

\* C12: no input is silently discarded: Enter (not in password mode) on a
\* non-empty line that is no command, while the current window has no
\* conversation (the console), schedules a log message or a CommandError.
C12_NoLineDiscarded ==
    [][(EnterStep /\ ~root.input.password /\ root.input.buf # <<>>
            /\ ~StartsWithSlash(root.input.buf) /\ ~HasConversation(current_window)) =>
        \E i \in 1..Len(scheduled') :
            \/ scheduled'[i].type = "CommandError"
            \/ /\ scheduled'[i].type = "Message"
               /\ scheduled'[i].message.type = "Log"]_vars

\* C13: every key other than Tab, Enter and Alt-a included, schedules exactly
\* one ResetCompletion; Tab schedules none.
C13_KeyResetsCompletion ==
    [][KeyStep =>
        CountType(scheduled', "ResetCompletion") = (IF last'.key = KeyTab THEN 0 ELSE 1)]_vars

\* C14: every Tab schedules exactly one event, AutoComplete with the editor's
\* buffer and cursor and with the account and the jid of the current window's
\* conversation (both absent when it has none); the Tab changes neither the
\* buffer nor the cursor.
C14_TabAutoCompletes ==
    [][TabStep =>
        /\ scheduled' =
              <<EvAutoComplete(
                  IF HasConversation(current_window)
                  THEN Some(conversations[Unwrap(current_window)].account) ELSE None,
                  IF HasConversation(current_window)
                  THEN Some(conversations[Unwrap(current_window)].jid) ELSE None,
                  root.input.buf, root.input.cursor)>>
        /\ root'.input.buf = root.input.buf
        /\ root'.input.cursor = root.input.cursor]_vars

\* The main loop is about to dispatch the event at the head of its queue.
Dispatching == core.queue # <<>>

\* C11: Enter (not in password mode) on a line that starts with "/" schedules
\* exactly one event, a Command or a CommandError, never a SendMessage, and
\* sends no stanza; the line "/b" (/bookmark add with its parameters missing)
\* is a CommandError, and dispatching a CommandError sends no stanza and
\* schedules nothing.
C11_SlashLineCommandOrError ==
    [][Dispatching =>
        LET ev == Head(core.queue)
            raw_buf == root.input.buf
        IN  /\ (ev = EvKey(KeyEnter) /\ ~root.input.password /\ StartsWithSlash(raw_buf)) =>
                /\ Len(scheduled') = 1
                /\ scheduled'[1].type \in {"Command", "CommandError"}
                /\ Tokens(Tail(raw_buf)) = << <<"b">> >> => scheduled'[1].type = "CommandError"
                /\ core'.sent = <<>>
            /\ ev.type = "CommandError" =>
                /\ scheduled' = <<>>
                /\ core'.sent = <<>>]_vars

\* C11 happens: the CommandError of the line "/b" has been dispatched, the
\* queue is empty again and no stanza was sent.
C11_Witness ==
    /\ last.type = "CommandError"
    /\ last.msg[2] = <<"/", "b">>
    /\ core.queue = <<>>
    /\ core.sent = <<>>

\* C15: draining the queue terminates: a drain is never back, with events
\* still queued, in a state (plugin, account, queue) it has already been in.
C15_DrainTerminates == ~(core.queue # <<>> /\ Config \in core.seen)

C17_NoLostWakeup ==
    ~(/\ tty.channel # <<>>
      /\ tty.poll = "returned" /\ tty.result = Some("Pending")
      /\ ~tty.notified
      /\ tty.reader = "bytes")

\* C18: the packets handed to the outbound channel reach the sink in the
\* order they were enqueued in, each exactly once: what has reached the sink
\* and what is still in the channel are, in this order, the packets enqueued,
\* and none is left in the channel when the main loop is over.
C18_StanzasReachSink ==
    /\ main.sent = main.sink \o main.tx
    /\ main.pc = "returned" => main.tx = <<>>

\* C19: when the inbound stream ends or fails the main loop is not left:
\* Disconnected has been published to the plugins and a reconnect attempt is
\* under way.
C19_ReconnectsOnStreamEnd ==
    main.pc \notin {"init", "running", "panicked"} =>
        /\ main.pc = "reconnecting"
        /\ \E i \in 1..Len(main.events) : main.events[i].event = "Disconnected"

\* C20: a plugin is notified only after the init of every registered plugin
\* has been called, in registration order, and has returned Ok; when an init
\* returns Err, main is over and no plugin is ever notified.
C20_InitBeforeEvents ==
    /\ main.events # <<>> =>
          main.inits = [i \in 1..Len(Registered) |-> [plugin |-> Registered[i], ok |-> TRUE]]
    /\ (\E i \in 1..Len(main.inits) : ~main.inits[i].ok) =>
          /\ main.pc = "panicked"
          /\ main.events = <<>>

\* C20 happens: both plugins have been initialised and have been notified of
\* the connection.
C20_Witness ==
    /\ Len(main.inits) = Len(Registered)
    /\ Len(main.events) >= Len(Registered)
    /\ main.events[1] = [plugin |-> "disco", event |-> "on_connect"]

\* C26: every CommandError handed to the UI plugin appends one line to the
\* backlog of the console window.
C26_CommandErrorInConsole ==
    [][(Dispatching /\ Head(core.queue).type = "CommandError") =>
        Len(root'.frame.children[Console].backlog)
            = Len(root.frame.children[Console].backlog) + 1]_vars

C28_PendingAfterDrop ==
    (/\ tty.poll = "returned" /\ tty.result = Some("Pending")
     /\ IsSome(tty.taken)
     /\ tty.reader = "bytes") =>
        (tty.channel = <<>> \/ tty.notified)

\* C29: a key the view tree has a binding for, PageUp included, is returned
\* as Event::Key by the poll_next that took it off the channel.
C29_BoundKeysPublished ==
    (tty.poll = "returned" /\ IsSome(tty.taken) /\ Bound(Unwrap(tty.taken))) =>
        tty.result = Some("Ready")

\* C30: PageUp and PageDown change the view offset of the current window
\* only: the offset of every other window is what it was.
C30_OnlyCurrentScrolls ==
    [][(last'.type = "Key" /\ last'.key \in {KeyPageUp, KeyPageDown}) =>
        \A k \in DOMAIN root.frame.children :
            Some(k) # current_window =>
                root'.frame.children[k].offset = root.frame.children[k].offset]_vars

\* C25: a message without body that carries a carbons "received" payload
\* whose forwarded message has a body is handled as one message of the
\* sender of the forwarded message, with the body of the forwarded message.
C25_CarbonAttributedToInner ==
    (/\ IsSome(main.stanza)
     /\ Unwrap(main.stanza).message
     /\ IsSome(Unwrap(main.stanza).from)
     /\ Unwrap(main.stanza).type # "error"
     /\ ~IsSome(Unwrap(main.stanza).body)
     /\ Unwrap(main.stanza).payloads = <<Received(Some(Forwarded(Some("yo"))))>>) =>
        main.printed = << <<"alice@x", "yo">> >>

\* The step handled a parsed /bookmark subcommand.
BookmarkCommandStep(command) ==
    bm'.input.type = "Command" /\ bm'.input.command = command

\* How many entries of the sequence are x.
Occurrences(seq, x) == Cardinality({i \in DOMAIN seq : seq[i] = x})

\* C21: a parsed /bookmark add sends exactly one iq of type set publishing on
\* the bookmarks2 node one item: its id the bare conference jid, the given
\* name, the resource of the jid as nick when it has one, the given autojoin
\* and false when omitted, no password, and the publish-options
\* persist_items=true and access_model=whitelist.
C21_AddPublishesOneItem ==
    [][BookmarkCommandStep("add") =>
        /\ Len(bm'.sent) = 1
        /\ LET iq == bm'.sent[1]
               cmd == bm'.input
           IN  /\ iq.type = "set"
               /\ iq.pubsub.kind = "publish"
               /\ iq.pubsub.node = "urn:xmpp:bookmarks:1"
               /\ iq.pubsub.publish_options =
                      [persist_items |-> <<"true">>, access_model |-> <<"whitelist">>]
               /\ Len(iq.pubsub.items) = 1
               /\ LET item == iq.pubsub.items[1]
                  IN  /\ item.id = Some(cmd.conference.bare)
                      /\ item.payload.name = Some(cmd.name)
                      /\ item.payload.nick = cmd.conference.resource
                      /\ item.payload.autojoin = (cmd.autojoin = Some(TRUE))
                      /\ item.payload.password = None]_vars

\* /bookmark add with a jid that has a resource and no autojoin option has
\* sent its publish.
C21_Witness ==
    /\ bm.input.type = "Command"
    /\ bm.input.command = "add"
    /\ IsSome(bm.input.conference.resource)
    /\ bm.input.autojoin = None
    /\ Len(bm.sent) = 1
    /\ bm.sent[1].pubsub.items[1].payload.nick = Some("mynick")
    /\ bm.sent[1].pubsub.items[1].payload.autojoin = FALSE

\* C22: on Event::Connected the BookmarksPlugin sends exactly one iq of type
\* get asking for the items of the bookmarks2 node; for any other event its
\* on_event sends nothing.
C22_RetrievesOnConnectedOnly ==
    [][/\ bm'.input.type = "Connected" =>
            /\ Len(bm'.sent) = 1
            /\ bm'.sent[1].type = "get"
            /\ bm'.sent[1].pubsub.kind = "items"
            /\ bm'.sent[1].pubsub.node = "urn:xmpp:bookmarks:1"
       /\ bm'.input.type \notin {"Connected", "Command", "Init"} =>
            bm'.sent = <<>>]_vars

\* The second Connected of the session has sent its retrieval.
C22_Witness ==
    /\ bm.input.type = "Connected"
    /\ Len(bm.ids) >= 2
    /\ Len(bm.sent) = 1
    /\ bm.sent[1].type = "get"

\* C23: each of /bookmark add, del and edit sends a PubSub stanza for the
\* named bookmark: add and edit publish an item, del retracts it.
C23_EveryCommandSends ==
    [][bm'.input.type = "Command" =>
        /\ Len(bm'.sent) = 1
        /\ bm'.sent[1].pubsub.kind =
               (IF bm'.input.command = "del" THEN "retract" ELSE "publish")]_vars

\* C24: no two iqs of the session carry the same id, no iq is resolved more
\* than once, and an iq that was answered, or that was outstanding when the
\* connection went down, has been resolved.
C24_IqResolvedOnce ==
    /\ NoDuplicates(bm.ids)
    /\ \A i \in DOMAIN bm.ids :
          /\ Occurrences(bm.resolved, bm.ids[i]) <= 1
          /\ (bm.ids[i] \in bm.answered \/ ~bm.connected) =>
                 Occurrences(bm.resolved, bm.ids[i]) = 1

\* C32: the current window of the UIPlugin, the current window of the
\* WinBar, the name shown by the TitleBar and the window selected in the
\* FrameLayout are one and the same window.
C32_OneCurrentWindow ==
    /\ IsSome(current_window)
    /\ root.win_bar.current_window = current_window
    /\ root.title_bar.window_name = current_window
    /\ root.frame.current = current_window

\* An event has made a conversation window current, after another one was.
C32_Witness ==
    /\ last.type \in {"Win", "Chat", "Joined", "Key"}
    /\ current_window = Some("alice@x")
    /\ root.title_bar.window_name = Some("alice@x")
    /\ Contains(windows, "room@conf.x")

\* The set of the entries of a sequence.
Range(seq) == {seq[i] : i \in DOMAIN seq}

\* C33: the windows highlighted by the WinBar are the windows of the unread
\* set of the UIPlugin.
C33_HighlightsAreUnread == Range(root.win_bar.highlighted) = Range(unread_windows)

\* The backlog of the window of that name, empty while there is no window.
BacklogOf(r, name) ==
    IF name \in DOMAIN r.frame.children THEN r.frame.children[name].backlog ELSE <<>>

\* C34: a Chat or Groupchat message, incoming or outgoing, is appended once
\* to the backlog of the window named by its peer jid and to no other
\* backlog, whichever event created the window.
C34_MessageInPeerBacklog ==
    [][(last'.type = "Message" /\ last'.message.dir # "Log") =>
        \A name \in DOMAIN root'.frame.children :
            BacklogOf(root', name) =
                IF name = last'.message.peer
                THEN Append(BacklogOf(root, name), last'.message)
                ELSE BacklogOf(root, name)]_vars

C36_WindowsAreConsoleThenConversations ==
    [][/\ NoDuplicates(windows')
       /\ windows'[1] = "console"
       /\ Range(Tail(windows')) = DOMAIN conversations'
       /\ \/ windows' = windows /\ DOMAIN conversations' = DOMAIN conversations
          \/ \E name \in DOMAIN conversations' \ DOMAIN conversations :
                /\ windows' = Append(windows, name)
                /\ DOMAIN conversations' = DOMAIN conversations \cup {name}]_vars

\* C37: the current window is defined and is in the window list, and so is
\* every entry of the unread set and every highlight of the WinBar.
C37_NamesAreWindows ==
    /\ IsSome(current_window)
    /\ Contains(windows, Unwrap(current_window))
    /\ \A name \in Range(unread_windows) : Contains(windows, name)
    /\ \A name \in Range(root.win_bar.highlighted) : Contains(windows, name)

\* A conversation window is current while another window is unread and
\* highlighted.
C37_Witness ==
    /\ current_window = Some("alice@x")
    /\ unread_windows # <<>>
    /\ root.win_bar.highlighted # <<>>

\* C38: Enter on a non-empty message line in a conversation window does not
\* abort the plugin, with or without a current account: on_event returns,
\* having scheduled a SendMessage or reported an error.
C38_EnterNeverAborts ==
    [][(EnterStep /\ ~root.input.password /\ root.input.buf # <<>>
            /\ ~StartsWithSlash(root.input.buf) /\ HasConversation(current_window)) =>
        /\ ~aborted'
        /\ \E i \in 1..Len(scheduled') :
              \/ scheduled'[i].type \in {"SendMessage", "CommandError"}
              \/ /\ scheduled'[i].type = "Message"
                 /\ scheduled'[i].message.type = "Log"]_vars

\* C39: while the window of a room exists, its occupant list holds every
\* occupant an Event::Occupant has announced for the room, whether the event
\* came before or after the window was created.
C39_RosterHoldsAnnounced ==
    \A name \in DOMAIN root.frame.children :
        root.frame.children[name].kind = "group" =>
            \A occupant \in Occupants :
                <<name, occupant>> \in announced =>
                    occupant \in root.frame.children[name].roster

\* C31: on a row of any width w WinBar::redraw writes at most w character
\* cells of text: the highlighted list is cut so that the names written, the
\* ", …" and the closing "]" fit.  Stated for the rows that the connection
\* and the current window fit on with room to spare for ", …]", so that it
\* is the cut of the highlighted list that decides.
C31_RedrawFitsRow ==
    \A w \in 1..MaxWidth :
        WinBarRedraw([root.win_bar EXCEPT !.highlighted = <<>>], w) + 4 <= w =>
            WinBarRedraw(root.win_bar, w) <= w

====
